---------------------------- MODULE Spec2Model ----------------------------
(***************************************************************************)
(* A model of resilientFetch (src/services/networkClient.ts): one call of  *)
(* the retry loop, its per-attempt AbortController and timeout timer, the  *)
(* backoff delay, the caller's abort signal and the request issuer         *)
(* (fetch), which is an external collaborator and may settle in any way    *)
(* at any time.  Time is discrete: one Tick is one unit of the timers.     *)
(***************************************************************************)
EXTENDS Integers, Sequences, FiniteSets, TLC

(* ------------------------------ bounds -------------------------------- *)
\* largest value of the caller's `retries` option
MaxRetries == 2
\* the caller's timeoutMs, retryDelayMs and backoffFactor options, in ticks
TimeoutTicks == 2
RetryDelayTicks == 1
BackoffMult == 2
\* the elapsed-time counter saturates here
MaxElapsed == 12

(* ------------------------- options and inputs ------------------------- *)
timeoutMs == TimeoutTicks
retryDelayMs == RetryDelayTicks
backoffFactor == BackoffMult

\* default of the retryOnStatuses option
DefaultRetryOnStatuses == {408, 429, 500, 502, 503, 504}
\* the retryOnStatuses values the caller passes in this model
RetryOnStatusesChoices == {DefaultRetryOnStatuses, {}, {404}}
\* statuses the issuer answers with
Statuses == {200, 404, 503}
\* what the issuer rejects with: a TypeError (transport fault), the
\* AbortError of an aborted request, anything else
Rejections == {"TypeError", "AbortError", "Other"}

VARIABLES
    retries,            \* option retries
    hasSignal,          \* option abortSignal is supplied
    retryOnStatuses,    \* option retryOnStatuses
    signalAborted,      \* abortSignal.aborted
    listeners,          \* attempts whose 'abort' listener is registered on abortSignal
    pc,                 \* "idle", "fetch" (await fetch), "delay" (await delay), "done"
    attempt,            \* loop variable
    currentDelay,
    lastError,
    controllerAborted,  \* controller.signal.aborted of the current attempt
    timeoutPending,     \* the setTimeout of line 109 is scheduled and not cleared
    timeoutLeft,        \* ticks until it is due
    delayLeft,          \* ticks until the delay timer of line 51 is due
    outcome,            \* what the call returned or threw
    fetchCalls,         \* invocations of fetch
    timersSet,          \* timeout timers scheduled
    logCount,           \* console.log calls
    delays,             \* the delays waited, in order
    history,            \* how each attempt ended
    timerFired,         \* the timeout callback of the current attempt has run
    preAborted,         \* abortSignal was already aborted when the call was made
    elapsed,            \* ticks since the call
    issuerLate,         \* time has passed while an aborted fetch was pending
    other,              \* the locals of a second invocation, not running now
    active,             \* which of the two invocations the variables above are
    stack,              \* the navigator's routes, bottom first
    currentResult,      \* store: "null", "success" or "error"
    currentImageBase64, \* store: an image is held
    isAnalyzing,        \* store
    isProcessing,       \* TextInputScreen state
    resultRef,          \* ResultScreen abortControllerRef: a task or 0
    textRef,            \* TextInputScreen abortControllerRef: a task or 0
    tasks               \* the analyses started so far

\* the state of one invocation of resilientFetch
callVars == << retries, hasSignal, retryOnStatuses, signalAborted, listeners,
               pc, attempt, currentDelay, lastError, controllerAborted,
               timeoutPending, timeoutLeft, delayLeft, outcome, fetchCalls,
               timersSet, logCount, delays, history, timerFired, preAborted,
               elapsed, issuerLate >>
twoVars == << other, active >>
\* the store, the navigator and the two screens that start analyses
uiVars == << stack, currentResult, currentImageBase64, isAnalyzing,
             isProcessing, resultRef, textRef, tasks >>
vars == << callVars, twoVars, uiVars >>

(* --------------------------- error values ----------------------------- *)
\* new ResilientFetchError(message, code, status): status is {} when absent
ResilientFetchError(code, status) == [code |-> code, status |-> status]
NoError == [code |-> "null", status |-> {}]
NoOutcome == [kind |-> "none", code |-> "none", status |-> {}, ext |-> FALSE]
Returned(s, ext) == [kind |-> "response", code |-> "none", status |-> {s}, ext |-> ext]
Thrown(e, ext) == [kind |-> "error", code |-> e.code, status |-> e.status, ext |-> ext]

\* Response.ok
ResponseOk_Below500(s) == s >= 200 /\ s <= 499
ResponseOk_Above200(s) == s > 200 /\ s <= 299
ResponseOk(s) == s >= 200 /\ s <= 299

\* maxAttempts with one attempt too many
maxAttempts_Zero == retries
maxAttempts_OffByOne == retries + 2
maxAttempts == retries + 1

\* the check of line 102 without effect
PreflightAborted_Never == FALSE
\* abortSignal && abortSignal.aborted, at the head of an iteration
PreflightAborted == hasSignal /\ signalAborted

\* the check of line 153 without effect
ExternalAborted_Never == FALSE
\* abortSignal?.aborted, in the catch block
ExternalAborted == hasSignal /\ signalAborted

(* ----------------------- classification (pure) ------------------------ *)
\* what one pass through the loop body decides: return the response, wait
\* the backoff delay and continue, or throw; `last` is the new lastError
Return(s, last) == [act |-> "return", error |-> NoError, last |-> last, status |-> {s}]
Retry(last) == [act |-> "retry", error |-> last, last |-> last, status |-> {}]
Throw(e, last) == [act |-> "throw", error |-> e, last |-> last, status |-> {}]

\* throwing the lastError of an earlier attempt when there is one
RetryOrThrow_Stale(e, att) ==
    IF att < maxAttempts
    THEN [act |-> "retry", error |-> e, last |-> e, status |-> {}]
    ELSE IF lastError = NoError
    THEN [act |-> "throw", error |-> e, last |-> e, status |-> {}]
    ELSE [act |-> "throw", error |-> lastError, last |-> lastError, status |-> {}]

\* record lastError, then wait and continue if attempts remain, else throw it
RetryOrThrow(e, att) == IF att < maxAttempts THEN Retry(e) ELSE Throw(e, e)

\* the catch block reporting a TypeError as 'offline'
Catch_TimeoutAsAborted(kind, err, att, last) ==
    IF ExternalAborted \/ controllerAborted
    THEN Throw(ResilientFetchError("aborted", {}), last)
    ELSE IF kind = "TypeError"
    THEN RetryOrThrow(ResilientFetchError("network", {}), att)
    ELSE IF kind = "ResilientFetchError"
    THEN Throw(err, last)
    ELSE Throw(ResilientFetchError("network", {}), last)

Catch_RetryUnknown(kind, err, att, last) ==
    IF ExternalAborted
    THEN Throw(ResilientFetchError("aborted", {}), last)
    ELSE IF controllerAborted
    THEN RetryOrThrow(ResilientFetchError("timeout", {}), att)
    ELSE IF kind = "TypeError"
    THEN RetryOrThrow(ResilientFetchError("network", {}), att)
    ELSE IF kind = "ResilientFetchError"
    THEN Throw(err, last)
    ELSE RetryOrThrow(ResilientFetchError("network", {}), att)

Catch_OfflineForTypeError(kind, err, att, last) ==
    IF ExternalAborted
    THEN Throw(ResilientFetchError("aborted", {}), last)
    ELSE IF controllerAborted
    THEN RetryOrThrow(ResilientFetchError("timeout", {}), att)
    ELSE IF kind = "TypeError"
    THEN RetryOrThrow(ResilientFetchError("offline", {}), att)
    ELSE IF kind = "ResilientFetchError"
    THEN Throw(err, last)
    ELSE Throw(ResilientFetchError("network", {}), last)

\* the catch block throwing a TypeError's network error without retrying
Catch_NetworkNoRetry(kind, err, att, last) ==
    IF ExternalAborted
    THEN Throw(ResilientFetchError("aborted", {}), last)
    ELSE IF controllerAborted
    THEN RetryOrThrow(ResilientFetchError("timeout", {}), att)
    ELSE IF kind = "ResilientFetchError"
    THEN Throw(err, last)
    ELSE Throw(ResilientFetchError("network", {}), last)

\* the catch block without the check of controller.signal.aborted
Catch_NoTimeoutCheck(kind, err, att, last) ==
    IF ExternalAborted
    THEN Throw(ResilientFetchError("aborted", {}), last)
    ELSE IF kind = "TypeError"
    THEN RetryOrThrow(ResilientFetchError("network", {}), att)
    ELSE IF kind = "ResilientFetchError"
    THEN Throw(err, last)
    ELSE Throw(ResilientFetchError("network", {}), last)

\* the catch block with the timeout check ahead of the external-abort check
Catch_TimeoutFirst(kind, err, att, last) ==
    IF controllerAborted
    THEN RetryOrThrow(ResilientFetchError("timeout", {}), att)
    ELSE IF ExternalAborted
    THEN Throw(ResilientFetchError("aborted", {}), last)
    ELSE IF kind = "TypeError"
    THEN RetryOrThrow(ResilientFetchError("network", {}), att)
    ELSE IF kind = "ResilientFetchError"
    THEN Throw(err, last)
    ELSE Throw(ResilientFetchError("network", {}), last)

\* the catch block; kind is the class of the caught value, err the caught
\* ResilientFetchError when it is one
Catch(kind, err, att, last) ==
    IF ExternalAborted
    THEN Throw(ResilientFetchError("aborted", {}), last)
    ELSE IF controllerAborted
    THEN RetryOrThrow(ResilientFetchError("timeout", {}), att)
    ELSE IF kind = "TypeError"
    THEN RetryOrThrow(ResilientFetchError("network", {}), att)
    ELSE IF kind = "ResilientFetchError"
    THEN Throw(err, last)
    ELSE Throw(ResilientFetchError("network", {}), last)

\* the try block after fetch resolved with a response of this status; its
\* throw is caught by the catch block of the same iteration
HandleResponse(s, att, last) ==
    IF ResponseOk(s)
    THEN Return(s, last)
    ELSE IF s \in retryOnStatuses /\ att < maxAttempts
    THEN Retry(ResilientFetchError("server", {s}))
    ELSE Catch("ResilientFetchError", ResilientFetchError("server", {s}), att,
               IF s \in retryOnStatuses
               THEN ResilientFetchError("server", {s}) ELSE last)

(* ------------------------------ state --------------------------------- *)
\* the locals of an invocation that has not started its loop
IdleCall(r, h, s) ==
    [retries |-> r, hasSignal |-> h, retryOnStatuses |-> s,
     signalAborted |-> FALSE, listeners |-> {}, pc |-> "idle", attempt |-> 0,
     currentDelay |-> 0, lastError |-> NoError, controllerAborted |-> FALSE,
     timeoutPending |-> FALSE, timeoutLeft |-> 0, delayLeft |-> 0,
     outcome |-> NoOutcome, fetchCalls |-> 0, timersSet |-> 0, logCount |-> 0,
     delays |-> << >>, history |-> << >>, timerFired |-> FALSE,
     preAborted |-> FALSE, elapsed |-> 0, issuerLate |-> FALSE]

\* the app after launch: the Home screen, an empty store, no analysis
UIInit ==
    /\ stack = << "Home" >>
    /\ currentResult = "null"
    /\ currentImageBase64 = FALSE
    /\ isAnalyzing = FALSE
    /\ isProcessing = FALSE
    /\ resultRef = 0
    /\ textRef = 0
    /\ tasks = << >>

Init ==
    /\ retries \in 0..MaxRetries
    /\ hasSignal \in BOOLEAN
    /\ retryOnStatuses \in RetryOnStatusesChoices
    /\ signalAborted = FALSE
    /\ listeners = {}
    /\ pc = "idle"
    /\ attempt = 0
    /\ currentDelay = 0
    /\ lastError = NoError
    /\ controllerAborted = FALSE
    /\ timeoutPending = FALSE
    /\ timeoutLeft = 0
    /\ delayLeft = 0
    /\ outcome = NoOutcome
    /\ fetchCalls = 0
    /\ timersSet = 0
    /\ logCount = 0
    /\ delays = << >>
    /\ history = << >>
    /\ timerFired = FALSE
    /\ preAborted = FALSE
    /\ elapsed = 0
    /\ issuerLate = FALSE
    /\ other = IdleCall(0, FALSE, DefaultRetryOnStatuses)
    /\ active = 1
    /\ UIInit

\* an iteration that reuses the controller of the previous one
LoopHead_SharedController(att, cd) ==
    /\ attempt' = att
    /\ currentDelay' = cd
    /\ IF att > maxAttempts
       THEN \* the loop ends: throw lastError || new ResilientFetchError(.., 'network')
            /\ pc' = "done"
            /\ outcome' = Thrown(IF lastError = NoError
                                 THEN ResilientFetchError("network", {})
                                 ELSE lastError, hasSignal /\ signalAborted)
            /\ UNCHANGED << listeners, controllerAborted, timeoutPending,
                            timeoutLeft, fetchCalls, timersSet, timerFired >>
       ELSE IF PreflightAborted
       THEN \* thrown before the try block
            /\ pc' = "done"
            /\ outcome' = Thrown(ResilientFetchError("aborted", {}), TRUE)
            /\ controllerAborted' = FALSE
            /\ timerFired' = FALSE
            /\ UNCHANGED << listeners, timeoutPending, timeoutLeft,
                            fetchCalls, timersSet >>
       ELSE /\ controllerAborted' = controllerAborted
            /\ timerFired' = FALSE
            /\ listeners' = IF hasSignal THEN listeners \cup {att} ELSE listeners
            /\ timeoutPending' = TRUE
            /\ timeoutLeft' = timeoutMs
            /\ timersSet' = timersSet + 1
            /\ fetchCalls' = fetchCalls + 1
            /\ pc' = "fetch"
            /\ UNCHANGED outcome

\* the loop from its condition to `await fetch`, entered with attempt = att
\* and currentDelay = cd
LoopHead(att, cd) ==
    /\ attempt' = att
    /\ currentDelay' = cd
    /\ IF att > maxAttempts
       THEN \* the loop ends: throw lastError || new ResilientFetchError(.., 'network')
            /\ pc' = "done"
            /\ outcome' = Thrown(IF lastError = NoError
                                 THEN ResilientFetchError("network", {})
                                 ELSE lastError, hasSignal /\ signalAborted)
            /\ UNCHANGED << listeners, controllerAborted, timeoutPending,
                            timeoutLeft, fetchCalls, timersSet, timerFired >>
       ELSE IF PreflightAborted
       THEN \* thrown before the try block
            /\ pc' = "done"
            /\ outcome' = Thrown(ResilientFetchError("aborted", {}), TRUE)
            /\ controllerAborted' = FALSE
            /\ timerFired' = FALSE
            /\ UNCHANGED << listeners, timeoutPending, timeoutLeft,
                            fetchCalls, timersSet >>
       ELSE /\ controllerAborted' = FALSE
            /\ timerFired' = FALSE
            /\ listeners' = IF hasSignal THEN listeners \cup {att} ELSE listeners
            /\ timeoutPending' = TRUE
            /\ timeoutLeft' = timeoutMs
            /\ timersSet' = timersSet + 1
            /\ fetchCalls' = fetchCalls + 1
            /\ pc' = "fetch"
            /\ UNCHANGED outcome

\* resilientFetch(url, options) is called
Call ==
    /\ pc = "idle"
    /\ LoopHead(1, retryDelayMs)
    /\ preAborted' = (hasSignal /\ signalAborted)
    /\ UNCHANGED << retries, hasSignal, retryOnStatuses, signalAborted,
                    lastError, delayLeft, logCount, delays, history, elapsed, issuerLate,
                    twoVars, uiVars >>

\* the next iteration starts without the delay having been awaited
DelayElapsed_NotAwaited ==
    /\ pc = "delay"
    /\ LoopHead(attempt + 1, currentDelay * backoffFactor)
    /\ UNCHANGED preAborted
    /\ UNCHANGED << retries, hasSignal, retryOnStatuses, signalAborted,
                    lastError, delayLeft, logCount, delays, history, elapsed, issuerLate,
                    twoVars, uiVars >>

\* the delay timer fires and currentDelay is left as it was
DelayElapsed_NoBackoff ==
    /\ pc = "delay"
    /\ delayLeft = 0
    /\ LoopHead(attempt + 1, currentDelay)
    /\ UNCHANGED preAborted
    /\ UNCHANGED << retries, hasSignal, retryOnStatuses, signalAborted,
                    lastError, delayLeft, logCount, delays, history, elapsed, issuerLate,
                    twoVars, uiVars >>

\* the delay timer fires: currentDelay *= backoffFactor; continue
DelayElapsed ==
    /\ pc = "delay"
    /\ delayLeft = 0
    /\ LoopHead(attempt + 1, currentDelay * backoffFactor)
    /\ UNCHANGED preAborted
    /\ UNCHANGED << retries, hasSignal, retryOnStatuses, signalAborted,
                    lastError, delayLeft, logCount, delays, history, elapsed, issuerLate,
                    twoVars, uiVars >>

\* the rest of the iteration, with the timer left running on the retry paths
Settle_TimerKeptOnRetry(r, entry) ==
    /\ history' = Append(history, entry @@ [act |-> r.act, code |->
                         IF r.act = "return" THEN "ok" ELSE r.error.code])
    /\ timeoutPending' = (timeoutPending /\ r.act = "retry")
    /\ lastError' = r.last
    /\ IF r.act = "retry"
       THEN /\ pc' = "delay"
            /\ delayLeft' = currentDelay
            /\ delays' = Append(delays, currentDelay)
            /\ logCount' = logCount + 1
            /\ UNCHANGED outcome
       ELSE /\ pc' = "done"
            /\ outcome' = IF r.act = "return"
                          THEN Returned(CHOOSE s \in r.status : TRUE,
                                        hasSignal /\ signalAborted)
                          ELSE Thrown(r.error, hasSignal /\ signalAborted)
            /\ UNCHANGED << delayLeft, delays, logCount >>
    /\ UNCHANGED << retries, hasSignal, retryOnStatuses, signalAborted,
                    listeners, attempt, currentDelay, controllerAborted,
                    timeoutLeft, fetchCalls, timersSet, timerFired, preAborted,
                    elapsed, issuerLate,
                    twoVars, uiVars >>

\* the rest of the iteration once fetch has settled
Settle(r, entry) ==
    /\ history' = Append(history, entry @@ [act |-> r.act, code |->
                         IF r.act = "return" THEN "ok" ELSE r.error.code])
    /\ timeoutPending' = FALSE
    /\ lastError' = r.last
    /\ IF r.act = "retry"
       THEN /\ pc' = "delay"
            /\ delayLeft' = currentDelay
            /\ delays' = Append(delays, currentDelay)
            /\ logCount' = logCount + 1
            /\ UNCHANGED outcome
       ELSE /\ pc' = "done"
            /\ outcome' = IF r.act = "return"
                          THEN Returned(CHOOSE s \in r.status : TRUE,
                                        hasSignal /\ signalAborted)
                          ELSE Thrown(r.error, hasSignal /\ signalAborted)
            /\ UNCHANGED << delayLeft, delays, logCount >>
    /\ UNCHANGED << retries, hasSignal, retryOnStatuses, signalAborted,
                    listeners, attempt, currentDelay, controllerAborted,
                    timeoutLeft, fetchCalls, timersSet, timerFired, preAborted,
                    elapsed, issuerLate,
                    twoVars, uiVars >>

AttemptEntry(settle, status, err) ==
    [settle |-> settle, status |-> status, err |-> err,
     timerFired |-> timerFired, ext |-> hasSignal /\ signalAborted]

\* fetch resolves with a response.  The issuer is outside the function: a
\* response that was already on its way when the controller was aborted is
\* still delivered, so this is enabled whatever controller.signal says
IssuerResponds ==
    /\ pc = "fetch"
    /\ \E s \in Statuses :
          Settle(HandleResponse(s, attempt, lastError),
                 AttemptEntry("response", {s}, "none"))

\* fetch rejects; with an AbortError only when its signal is aborted
IssuerRejects ==
    /\ pc = "fetch"
    /\ \E k \in Rejections :
          /\ k = "AbortError" => controllerAborted
          /\ Settle(Catch(k, NoError, attempt, lastError),
                    AttemptEntry("reject", {}, k))

\* a timeout callback that ends the call itself, without the issuer
TimeoutFire_EndsCall ==
    /\ timeoutPending
    /\ timeoutLeft = 0
    /\ timeoutPending' = FALSE
    /\ controllerAborted' = TRUE
    /\ timerFired' = TRUE
    /\ pc' = "done"
    /\ outcome' = Thrown(ResilientFetchError("timeout", {}), hasSignal /\ signalAborted)
    /\ UNCHANGED << retries, hasSignal, retryOnStatuses, signalAborted,
                    listeners, attempt, currentDelay, lastError,
                    timeoutLeft, delayLeft, fetchCalls, timersSet,
                    logCount, delays, history, preAborted, elapsed, issuerLate,
                    twoVars, uiVars >>

\* a timeout callback that does not abort the controller
TimeoutFire_NoAbort ==
    /\ timeoutPending
    /\ timeoutLeft = 0
    /\ timeoutPending' = FALSE
    /\ timerFired' = TRUE
    /\ UNCHANGED << retries, hasSignal, retryOnStatuses, signalAborted,
                    listeners, pc, attempt, currentDelay, lastError,
                    controllerAborted, timeoutLeft, delayLeft, outcome,
                    fetchCalls, timersSet, logCount, delays, history,
                    preAborted, elapsed, issuerLate,
                    twoVars, uiVars >>

\* the timeout callback: controller.abort()
TimeoutFire ==
    /\ timeoutPending
    /\ timeoutLeft = 0
    /\ timeoutPending' = FALSE
    /\ controllerAborted' = TRUE
    /\ timerFired' = TRUE
    /\ UNCHANGED << retries, hasSignal, retryOnStatuses, signalAborted,
                    listeners, pc, attempt, currentDelay, lastError,
                    timeoutLeft, delayLeft, outcome, fetchCalls, timersSet,
                    logCount, delays, history, preAborted, elapsed, issuerLate,
                    twoVars, uiVars >>

\* the caller aborts its signal and no listener reaches the controller
ExternalAbort_NoPropagate ==
    /\ hasSignal
    /\ ~signalAborted
    /\ signalAborted' = TRUE
    /\ listeners' = {}
    /\ UNCHANGED << retries, hasSignal, retryOnStatuses, pc, attempt,
                    currentDelay, lastError, controllerAborted, timeoutPending,
                    timeoutLeft, delayLeft, outcome, fetchCalls, timersSet,
                    logCount, delays, history, timerFired, preAborted,
                    elapsed, issuerLate,
                    twoVars, uiVars >>

\* the caller aborts its signal: every registered listener runs once and
\* aborts the controller of its own attempt
ExternalAbort ==
    /\ hasSignal
    /\ ~signalAborted
    /\ signalAborted' = TRUE
    /\ listeners' = {}
    /\ controllerAborted' = (controllerAborted \/ attempt \in listeners)
    /\ UNCHANGED << retries, hasSignal, retryOnStatuses, pc, attempt,
                    currentDelay, lastError, timeoutPending, timeoutLeft,
                    delayLeft, outcome, fetchCalls, timersSet, logCount,
                    delays, history, timerFired, preAborted, elapsed, issuerLate,
                    twoVars, uiVars >>

\* one unit of time passes; a timer that is due fires first
Tick ==
    /\ pc \in {"fetch", "delay"}
    /\ ~(timeoutPending /\ timeoutLeft = 0)
    /\ ~(pc = "delay" /\ delayLeft = 0)
    /\ elapsed' = IF elapsed < MaxElapsed THEN elapsed + 1 ELSE elapsed
    /\ issuerLate' = (issuerLate \/ (pc = "fetch" /\ controllerAborted))
    /\ timeoutLeft' = IF timeoutPending THEN timeoutLeft - 1 ELSE timeoutLeft
    /\ delayLeft' = IF pc = "delay" THEN delayLeft - 1 ELSE delayLeft
    /\ UNCHANGED << retries, hasSignal, retryOnStatuses, signalAborted,
                    listeners, pc, attempt, currentDelay, lastError,
                    controllerAborted, timeoutPending, outcome, fetchCalls,
                    timersSet, logCount, delays, history, timerFired,
                    preAborted, twoVars, uiVars >>

Next ==
    \/ Call
    \/ DelayElapsed
    \/ IssuerResponds
    \/ IssuerRejects
    \/ TimeoutFire
    \/ ExternalAbort
    \/ Tick

Spec == Init /\ [][Next]_vars

\* an issuer that honours its signal: once the signal is aborted the
\* request settles
IssuerHonoursAbort == controllerAborted /\ (IssuerResponds \/ IssuerRejects)

\* timers fire, time passes, the call is made, and the issuer honours abort
LiveSpec ==
    /\ Init
    /\ [][Next]_vars
    /\ WF_vars(Call)
    /\ WF_vars(Tick)
    /\ WF_vars(TimeoutFire)
    /\ WF_vars(DelayElapsed)
    /\ WF_vars(IssuerHonoursAbort)

(* ------------------------ two invocations ----------------------------- *)
\* resilientFetch keeps all its state in locals, so a second invocation has
\* a second set of them.  The variables above are the locals of the
\* invocation that runs now; `other` holds those of the invocation that is
\* waiting on its await.
CallState ==
    [retries |-> retries, hasSignal |-> hasSignal,
     retryOnStatuses |-> retryOnStatuses, signalAborted |-> signalAborted,
     listeners |-> listeners, pc |-> pc, attempt |-> attempt,
     currentDelay |-> currentDelay, lastError |-> lastError,
     controllerAborted |-> controllerAborted,
     timeoutPending |-> timeoutPending, timeoutLeft |-> timeoutLeft,
     delayLeft |-> delayLeft, outcome |-> outcome, fetchCalls |-> fetchCalls,
     timersSet |-> timersSet, logCount |-> logCount, delays |-> delays,
     history |-> history, timerFired |-> timerFired,
     preAborted |-> preAborted, elapsed |-> elapsed,
     issuerLate |-> issuerLate]

\* option retries of the two invocations: the first has an abortSignal of
\* its own and no retry, the second no signal and one retry
TwoRetriesA == 0
TwoRetriesB == 1

InitTwo ==
    /\ retries = TwoRetriesA
    /\ hasSignal = TRUE
    /\ retryOnStatuses = DefaultRetryOnStatuses
    /\ signalAborted = FALSE
    /\ listeners = {}
    /\ pc = "idle"
    /\ attempt = 0
    /\ currentDelay = 0
    /\ lastError = NoError
    /\ controllerAborted = FALSE
    /\ timeoutPending = FALSE
    /\ timeoutLeft = 0
    /\ delayLeft = 0
    /\ outcome = NoOutcome
    /\ fetchCalls = 0
    /\ timersSet = 0
    /\ logCount = 0
    /\ delays = << >>
    /\ history = << >>
    /\ timerFired = FALSE
    /\ preAborted = FALSE
    /\ elapsed = 0
    /\ issuerLate = FALSE
    /\ other = IdleCall(TwoRetriesB, FALSE, DefaultRetryOnStatuses)
    /\ active = 1
    /\ UIInit

\* the event loop resumes the other invocation, with currentDelay kept in
\* one place for both
Switch_SharedDelay ==
    /\ other' = CallState
    /\ active' = 3 - active
    /\ retries' = other.retries
    /\ hasSignal' = other.hasSignal
    /\ retryOnStatuses' = other.retryOnStatuses
    /\ signalAborted' = other.signalAborted
    /\ listeners' = other.listeners
    /\ pc' = other.pc
    /\ attempt' = other.attempt
    /\ lastError' = other.lastError
    /\ controllerAborted' = other.controllerAborted
    /\ timeoutPending' = other.timeoutPending
    /\ timeoutLeft' = other.timeoutLeft
    /\ delayLeft' = other.delayLeft
    /\ outcome' = other.outcome
    /\ fetchCalls' = other.fetchCalls
    /\ timersSet' = other.timersSet
    /\ logCount' = other.logCount
    /\ delays' = other.delays
    /\ history' = other.history
    /\ timerFired' = other.timerFired
    /\ preAborted' = other.preAborted
    /\ elapsed' = other.elapsed
    /\ issuerLate' = other.issuerLate
    /\ currentDelay' = currentDelay
    /\ UNCHANGED uiVars

\* the event loop resumes the other invocation: each one finds its own
\* locals
Switch ==
    /\ other' = CallState
    /\ active' = 3 - active
    /\ retries' = other.retries
    /\ hasSignal' = other.hasSignal
    /\ retryOnStatuses' = other.retryOnStatuses
    /\ signalAborted' = other.signalAborted
    /\ listeners' = other.listeners
    /\ pc' = other.pc
    /\ attempt' = other.attempt
    /\ currentDelay' = other.currentDelay
    /\ lastError' = other.lastError
    /\ controllerAborted' = other.controllerAborted
    /\ timeoutPending' = other.timeoutPending
    /\ timeoutLeft' = other.timeoutLeft
    /\ delayLeft' = other.delayLeft
    /\ outcome' = other.outcome
    /\ fetchCalls' = other.fetchCalls
    /\ timersSet' = other.timersSet
    /\ logCount' = other.logCount
    /\ delays' = other.delays
    /\ history' = other.history
    /\ timerFired' = other.timerFired
    /\ preAborted' = other.preAborted
    /\ elapsed' = other.elapsed
    /\ issuerLate' = other.issuerLate
    /\ UNCHANGED uiVars

InFlight(c) == c.pc \in {"fetch", "delay"}
TimerDue(c) ==
    \/ c.timeoutPending /\ c.timeoutLeft = 0
    \/ c.pc = "delay" /\ c.delayLeft = 0

\* an invocation one unit of time later
Aged(c) ==
    IF InFlight(c)
    THEN [c EXCEPT
            !.elapsed = IF c.elapsed < MaxElapsed THEN c.elapsed + 1 ELSE c.elapsed,
            !.issuerLate = (c.issuerLate \/ (c.pc = "fetch" /\ c.controllerAborted)),
            !.timeoutLeft = IF c.timeoutPending THEN c.timeoutLeft - 1
                            ELSE c.timeoutLeft,
            !.delayLeft = IF c.pc = "delay" THEN c.delayLeft - 1 ELSE c.delayLeft]
    ELSE c

\* one unit of time passes for both invocations; a timer that is due fires
\* first
TickTwo ==
    /\ InFlight(CallState) \/ InFlight(other)
    /\ ~TimerDue(CallState)
    /\ ~TimerDue(other)
    /\ elapsed' = Aged(CallState).elapsed
    /\ issuerLate' = Aged(CallState).issuerLate
    /\ timeoutLeft' = Aged(CallState).timeoutLeft
    /\ delayLeft' = Aged(CallState).delayLeft
    /\ other' = Aged(other)
    /\ UNCHANGED << retries, hasSignal, retryOnStatuses, signalAborted,
                    listeners, pc, attempt, currentDelay, lastError,
                    controllerAborted, timeoutPending, outcome, fetchCalls,
                    timersSet, logCount, delays, history, timerFired,
                    preAborted, active, uiVars >>

NextTwo ==
    \/ Call
    \/ DelayElapsed
    \/ IssuerResponds
    \/ IssuerRejects
    \/ TimeoutFire
    \/ ExternalAbort
    \/ TickTwo
    \/ Switch

TwoSpec == InitTwo /\ [][NextTwo]_vars

(* ------------------------------ the app ------------------------------- *)
\* analyses started in one run of the app
MaxTasks == 3

\* what expo-network reports; "failed" is getNetworkStateAsync throwing
NetworkStates == {"online", "offline", "unreachable", "failed"}

\* the test with a failed check counted as no connection
Connected_FailedIsOffline(n) == n = "online"

\* getCurrentNetworkState, then the screens' test
\* network.isConnected && network.isInternetReachable
Connected(n) == n \in {"online", "failed"}

\* what analyzeFood and analyzeFoodFromText resolve with: a result, a
\* failure, or the failure 'Analysis cancelled'
AnalysisResults == {"success", "error", "cancelled"}

\* an analysis: the async function started by a screen, with its controller.
\* live: the screen instance that started it is still mounted;
\* cancelled: Cancel was tapped while its request was in flight;
\* dismissed: Cancel was tapped before it ended;
\* wroteAfter: it set currentResult after that, or after its screen went;
\* net: what its connectivity check found; requested: it went on to call
\* analyzeFood; offlineError: it ended by showing the offline error
NewTask(flow) ==
    [flow |-> flow, phase |-> "check", aborted |-> FALSE, live |-> TRUE,
     cancelled |-> FALSE, dismissed |-> FALSE, wroteAfter |-> FALSE,
     net |-> "none", requested |-> FALSE, offlineError |-> FALSE]

\* the connectivity check of the analysis resolved with n
Checked(task, n) ==
    IF Connected(n)
    THEN [task EXCEPT !.net = n, !.phase = "request", !.requested = TRUE]
    ELSE [task EXCEPT !.net = n, !.offlineError = TRUE]

\* the analysis ends; wrote: it has just set currentResult
Ended(task, wrote) ==
    [task EXCEPT !.phase = "done",
                 !.wroteAfter = (wrote /\ (task.dismissed \/ ~task.live))]

Top == stack[Len(stack)]
Has(st, s) == \E i \in 1..Len(st) : st[i] = s
Pop(st) == SubSeq(st, 1, Len(st) - 1)

\* navigation.navigate(s): back to the route if it is on the stack, else push
NavigateTo(s) ==
    IF Has(stack, s)
    THEN SubSeq(stack, 1, CHOOSE i \in 1..Len(stack) : stack[i] = s)
    ELSE Append(stack, s)

\* ResultScreen renders its loading state, the one with the Cancel button
Loading == isAnalyzing /\ currentResult = "null"

\* controller.abort() on the controller a ref holds
AbortTask(ts, t) == IF t = 0 THEN ts ELSE [ts EXCEPT ![t].aborted = TRUE]

\* the screen that runs this flow's analyses has been unmounted
Orphan(ts, flow) ==
    [i \in 1..Len(ts) |->
        IF ts[i].flow = flow THEN [ts[i] EXCEPT !.live = FALSE] ELSE ts[i]]

Unmounts(ns, s) == Has(stack, s) /\ ~Has(ns, s)
Mounts(ns, s) == ~Has(stack, s) /\ Has(ns, s)

\* the effect cleanups of the screens that leave the stack
Cleanup(ts, ns) ==
    LET a == IF Unmounts(ns, "Result")
             THEN Orphan(AbortTask(ts, resultRef), "image") ELSE ts
    IN  IF Unmounts(ns, "TextInput")
        THEN Orphan(AbortTask(a, textRef), "text") ELSE a

\* the condition under which ResultScreen's effect starts an image analysis
EffectStarts(img, res, ana) == img /\ res = "null" /\ ana

\* a handler ends: the store holds img, res and ana, TextInputScreen holds
\* tref and proc, and the stack becomes ns; screens that leave run their
\* cleanup, a ResultScreen that enters runs its effect
Navigate(ts, ns, img, res, ana, tref, proc) ==
    LET cleaned == Cleanup(ts, ns)
        starts == Mounts(ns, "Result") /\ EffectStarts(img, res, ana)
        resultChanged == Unmounts(ns, "Result") \/ Mounts(ns, "Result")
        textChanged == Unmounts(ns, "TextInput") \/ Mounts(ns, "TextInput")
    IN  /\ stack' = ns
        /\ tasks' = IF starts THEN Append(cleaned, NewTask("image")) ELSE cleaned
        /\ resultRef' = IF starts THEN Len(cleaned) + 1
                        ELSE IF resultChanged THEN 0 ELSE resultRef
        /\ textRef' = IF textChanged THEN 0 ELSE tref
        /\ isProcessing' = IF textChanged THEN FALSE ELSE proc
        /\ currentImageBase64' = img
        /\ currentResult' = res
        /\ isAnalyzing' = ana

\* HomeScreen.processImage: a photo was taken or picked
ProcessImage ==
    /\ Top = "Home"
    /\ Len(tasks) < MaxTasks
    /\ Navigate(tasks, NavigateTo("Result"), TRUE, currentResult, TRUE,
                textRef, isProcessing)
    /\ UNCHANGED << callVars, twoVars >>

\* HomeScreen: the 'describe food' button
OpenTextInput ==
    /\ Top = "Home"
    /\ Navigate(tasks, NavigateTo("TextInput"), currentImageBase64,
                currentResult, isAnalyzing, textRef, isProcessing)
    /\ UNCHANGED << callVars, twoVars >>

\* TextInputScreen.handleAnalyze up to its await of the connectivity check
HandleAnalyze ==
    /\ Top = "TextInput"
    /\ ~isProcessing
    /\ Len(tasks) + 2 <= MaxTasks
    /\ isProcessing' = TRUE
    /\ tasks' = Append(tasks, NewTask("text"))
    /\ UNCHANGED << stack, currentResult, currentImageBase64, isAnalyzing,
                    resultRef, textRef, callVars, twoVars >>

\* ResultScreen analyze(): the connectivity check resolves
ImageCheckDone ==
    \E t \in 1..Len(tasks), n \in NetworkStates :
        /\ tasks[t].flow = "image"
        /\ tasks[t].phase = "check"
        /\ IF Connected(n)
           THEN /\ tasks' = [tasks EXCEPT ![t] = Checked(tasks[t], n)]
                /\ UNCHANGED << currentResult, isAnalyzing >>
           ELSE /\ tasks' = [tasks EXCEPT ![t] = Ended(Checked(tasks[t], n), TRUE)]
                /\ currentResult' = "error"
                /\ isAnalyzing' = FALSE
        /\ UNCHANGED << stack, currentImageBase64, isProcessing, resultRef,
                        textRef, callVars, twoVars >>

\* TextInputScreen.handleAnalyze: the connectivity check resolves
TextCheckDone ==
    \E t \in 1..Len(tasks), n \in NetworkStates :
        /\ tasks[t].flow = "text"
        /\ tasks[t].phase = "check"
        /\ IF Connected(n)
           THEN Navigate([tasks EXCEPT ![t] = Checked(tasks[t], n)],
                         NavigateTo("Result"), currentImageBase64,
                         currentResult, TRUE,
                         IF tasks[t].live THEN t ELSE textRef, isProcessing)
           ELSE /\ tasks' = [tasks EXCEPT ![t] = Ended(Checked(tasks[t], n), FALSE)]
                /\ isProcessing' = (isProcessing /\ ~tasks[t].live)
                /\ UNCHANGED << stack, currentResult, currentImageBase64,
                                isAnalyzing, resultRef, textRef >>
        /\ UNCHANGED << callVars, twoVars >>

\* ResultScreen analyze(): analyzeFood resolves
ImageResolves ==
    \E t \in 1..Len(tasks), r \in AnalysisResults :
        /\ tasks[t].flow = "image"
        /\ tasks[t].phase = "request"
        /\ r = "cancelled" => tasks[t].aborted
        /\ tasks' = [tasks EXCEPT ![t] = Ended(tasks[t], ~tasks[t].aborted)]
        /\ currentResult' = IF tasks[t].aborted THEN currentResult
                            ELSE IF r = "success" THEN "success" ELSE "error"
        /\ isAnalyzing' = FALSE
        /\ resultRef' = IF tasks[t].live THEN 0 ELSE resultRef
        /\ UNCHANGED << stack, currentImageBase64, isProcessing, textRef,
                        callVars, twoVars >>

\* TextInputScreen.handleAnalyze: analyzeFoodFromText resolves
TextResolves ==
    \E t \in 1..Len(tasks), r \in AnalysisResults :
        /\ tasks[t].flow = "text"
        /\ tasks[t].phase = "request"
        /\ r = "cancelled" => tasks[t].aborted
        /\ tasks' = [tasks EXCEPT ![t] = Ended(tasks[t], ~tasks[t].aborted)]
        /\ currentResult' = IF tasks[t].aborted THEN currentResult
                            ELSE IF r = "success" THEN "success" ELSE "error"
        /\ isAnalyzing' = FALSE
        /\ isProcessing' = (isProcessing /\ ~tasks[t].live)
        /\ textRef' = IF tasks[t].live THEN 0 ELSE textRef
        /\ UNCHANGED << stack, currentImageBase64, resultRef, callVars,
                        twoVars >>

\* ResultScreen.handleCancel, the button of the loading state
HandleCancel ==
    /\ Top = "Result"
    /\ Loading
    /\ LET tapped == [i \in 1..Len(tasks) |->
                        IF tasks[i].phase = "request"
                        THEN [tasks[i] EXCEPT !.cancelled = TRUE,
                                              !.dismissed = TRUE]
                        ELSE IF tasks[i].phase = "check"
                        THEN [tasks[i] EXCEPT !.dismissed = TRUE]
                        ELSE tasks[i]]
       IN  Navigate(AbortTask(tapped, resultRef), Pop(stack), FALSE, "null",
                    FALSE, textRef, isProcessing)
    /\ UNCHANGED << callVars, twoVars >>

\* ResultScreen.handleRetry, the button of the error state; the new
\* retryCount runs the effect's cleanup and the effect again
HandleRetry ==
    /\ Top = "Result"
    /\ ~Loading
    /\ currentResult = "error"
    /\ Len(tasks) < MaxTasks
    /\ currentResult' = "null"
    /\ isAnalyzing' = TRUE
    /\ LET cleaned == AbortTask(tasks, resultRef)
           starts == EffectStarts(currentImageBase64, "null", TRUE)
       IN  /\ tasks' = IF starts THEN Append(cleaned, NewTask("image"))
                       ELSE cleaned
           /\ resultRef' = IF starts THEN Len(cleaned) + 1 ELSE 0
    /\ UNCHANGED << stack, currentImageBase64, isProcessing, textRef,
                    callVars, twoVars >>

\* ResultScreen.handleDiscard, a button of the error and result states
HandleDiscard ==
    /\ Top = "Result"
    /\ ~Loading
    /\ Navigate(tasks, Pop(stack), FALSE, "null", isAnalyzing, textRef,
                isProcessing)
    /\ UNCHANGED << callVars, twoVars >>

\* ResultScreen.handleAddToLog and the OK of its alert
HandleAddToLog ==
    /\ Top = "Result"
    /\ ~Loading
    /\ currentResult = "success"
    /\ Navigate(tasks, NavigateTo("Home"), currentImageBase64, "null",
                isAnalyzing, textRef, isProcessing)
    /\ UNCHANGED << callVars, twoVars >>

\* the back button of the navigator's header
GoBack ==
    /\ Len(stack) > 1
    /\ Navigate(tasks, Pop(stack), currentImageBase64, currentResult,
                isAnalyzing, textRef, isProcessing)
    /\ UNCHANGED << callVars, twoVars >>

NextUI ==
    \/ ProcessImage
    \/ OpenTextInput
    \/ HandleAnalyze
    \/ ImageCheckDone
    \/ TextCheckDone
    \/ ImageResolves
    \/ TextResolves
    \/ HandleCancel
    \/ HandleRetry
    \/ HandleDiscard
    \/ HandleAddToLog
    \/ GoBack

\* the app from launch.  An analysis is followed up to what analyzeFood
\* resolves with; the variables of resilientFetch stay as they start
UISpec == InitTwo /\ [][NextUI]_vars

(* --------------------------- geminiService ---------------------------- *)
\* what the body of a 2xx response turns out to be: not JSON, JSON without
\* message content, content that no parsing strategy accepts, a result of
\* the model with success true, one with success false
Bodies == {"badJson", "noContent", "unparsable", "result", "refusal"}

ThrowError(type, code, message) ==
    [kind |-> "throw", type |-> type, code |-> code, message |-> message,
     content |-> "none"]
ReturnContent(c) ==
    [kind |-> "return", type |-> "none", code |-> "none", message |-> "none",
     content |-> c]

\* makePortkeyRequest with 'aborted' mapped to a message like the other codes
MakePortkeyRequest_AbortedWrapped(key, o, body) ==
    IF ~key
    THEN ThrowError("Error", "none", "Portkey API key is not configured. Please set PORTKEY_API_KEY in your .env file.")
    ELSE IF o.kind = "error"
    THEN CASE o.code = "timeout" ->
                ThrowError("Error", "none", "The analysis is taking too long. Please check your connection and try again.")
           [] o.code \in {"aborted", "offline", "network"} ->
                ThrowError("Error", "none", "Network error. Please check your internet connection and try again.")
           [] o.code = "server" ->
                ThrowError("Error", "none", "Server error. Please try again later.")
           [] OTHER ->
                ThrowError("Error", "none", "An error occurred while contacting the analysis service.")
    ELSE IF ~(\E s \in o.status : s >= 200 /\ s <= 299)
    THEN ThrowError("Error", "none", "Portkey API error")
    ELSE IF body = "badJson"
    THEN ThrowError("Error", "none", "JSON Parse error")
    ELSE ReturnContent(IF body = "noContent" THEN "null" ELSE body)

\* makePortkeyRequest, given whether an API key is configured, what
\* resilientFetch returned or threw, and the body of the response.  The
\* status in the 'server' message is left out
MakePortkeyRequest(key, o, body) ==
    IF ~key
    THEN ThrowError("Error", "none", "Portkey API key is not configured. Please set PORTKEY_API_KEY in your .env file.")
    ELSE IF o.kind = "error"
    THEN CASE o.code = "timeout" ->
                ThrowError("Error", "none", "The analysis is taking too long. Please check your connection and try again.")
           [] o.code = "aborted" ->
                ThrowError("ResilientFetchError", "aborted", "Request was aborted")
           [] o.code \in {"offline", "network"} ->
                ThrowError("Error", "none", "Network error. Please check your internet connection and try again.")
           [] o.code = "server" ->
                ThrowError("Error", "none", "Server error. Please try again later.")
           [] OTHER ->
                ThrowError("Error", "none", "An error occurred while contacting the analysis service.")
    ELSE IF ~(\E s \in o.status : s >= 200 /\ s <= 299)
    THEN ThrowError("Error", "none", "Portkey API error")
    ELSE IF body = "badJson"
    THEN ThrowError("Error", "none", "JSON Parse error")
    ELSE ReturnContent(IF body = "noContent" THEN "null" ELSE body)

\* an AnalysisResult; items is the set of food items, here none or one
FailureResult(message) ==
    [promise |-> "fulfilled", success |-> FALSE, error |-> message,
     items |-> {}, totalCalories |-> 0]

\* parseJsonResponse and its caller's catch
ParsedResult(content) ==
    IF content = "unparsable"
    THEN FailureResult("Failed to parse AI response")
    ELSE IF content = "result"
    THEN [promise |-> "fulfilled", success |-> TRUE, error |-> "none",
          items |-> {"item"}, totalCalories |-> 1]
    ELSE [promise |-> "fulfilled", success |-> FALSE,
          error |-> "Could not identify food", items |-> {}, totalCalories |-> 0]

\* analyzeFood and analyzeFoodFromText: the same try and the same catch
\* around makePortkeyRequest
AnalyzeFood(key, o, body) ==
    LET r == MakePortkeyRequest(key, o, body)
    IN  IF r.kind = "throw"
        THEN IF r.type = "ResilientFetchError" /\ r.code = "aborted"
             THEN FailureResult("Analysis cancelled")
             ELSE FailureResult(r.message)
        ELSE IF r.content = "null"
        THEN FailureResult("No response received from AI")
        ELSE ParsedResult(r.content)

(* ------------------------------ claims -------------------------------- *)
Done == pc = "done"
LastAttempt == history[Len(history)]
SignalTriggered == hasSignal /\ signalAborted
Is2xx(status) == \E s \in status : s \in 200..299
Failed(code, status) ==
    outcome.kind = "error" /\ outcome.code = code /\ outcome.status = status

\* C1: in one call with retries = n, fetch is invoked at most n+1 times,
\* whatever the attempts end in.
C1_BoundedAttempts == fetchCalls <= retries + 1

\* the budget is used up by attempts that failed in different ways
C1_Witness ==
    /\ Done
    /\ retries >= 1
    /\ fetchCalls = retries + 1
    /\ \E i, j \in 1..Len(history) : history[i].code # history[j].code

\* C2: every call that was made ends: it returns a response or throws one
\* ResilientFetchError, and does not stay suspended.
C2_Terminates ==
    (pc # "idle") ~> (Done /\ outcome.kind \in {"response", "error"})

\* a call whose last attempt was ended by its timeout: the timer fired and
\* the issuer rejected with the AbortError
C2_Witness ==
    /\ Done
    /\ Failed("timeout", {})
    /\ LastAttempt.timerFired
    /\ LastAttempt.err = "AbortError"

\* C3: a call made with an already aborted signal throws 'aborted' without
\* invoking fetch, scheduling a timer or waiting.
C3_PreAborted ==
    preAborted =>
        /\ Done
        /\ Failed("aborted", {})
        /\ fetchCalls = 0
        /\ timersSet = 0
        /\ ~timeoutPending
        /\ delays = << >>
        /\ history = << >>
        /\ elapsed = 0

\* a call made after the signal was aborted, with retries to spare
C3_Witness == preAborted /\ Done /\ retries >= 1

\* C4: an attempt that ends in an issuer failure after the external signal
\* was aborted ends the call with 'aborted', the timer having fired or not,
\* and is the last attempt.
C4_AbortPrecedence ==
    \A i \in 1..Len(history) :
        (history[i].settle = "reject" /\ history[i].ext) =>
            /\ i = Len(history)
            /\ Done
            /\ Failed("aborted", {})
            /\ fetchCalls = i

\* the signal was aborted in flight, the timer had fired too, retries remained
C4_Witness ==
    /\ Done
    /\ history # << >>
    /\ LastAttempt.settle = "reject"
    /\ LastAttempt.ext
    /\ LastAttempt.timerFired
    /\ Len(history) < retries + 1

C6_AbortEndsDelay ==
    [][(pc = "delay" /\ SignalTriggered) => ~(delayLeft' < delayLeft)]_vars

\* C7: an attempt that receives a 2xx response is the last one: the call
\* returns that response, and no delay follows the attempt.
C7_SuccessShortCircuits ==
    \A i \in 1..Len(history) :
        (history[i].settle = "response" /\ Is2xx(history[i].status)) =>
            /\ i = Len(history)
            /\ Done
            /\ outcome.kind = "response"
            /\ outcome.status = history[i].status
            /\ fetchCalls = i
            /\ Len(delays) = i - 1

\* a 2xx response on a retry, with retries still to spare
C7_Witness ==
    /\ Done
    /\ outcome.kind = "response"
    /\ Len(history) = 2
    /\ retries >= 2

AllAttempts(P(_)) == history # << >> /\ \A i \in 1..Len(history) : P(history[i])

\* C8: when every attempt receives the same retryable status s and the
\* signal is not aborted, fetch is invoked retries+1 times and the call
\* fails with 'server' and status s.
C8_RetryableExhaustion ==
    \A s \in retryOnStatuses :
        LET Got(a) == a.settle = "response" /\ a.status = {s}
        IN  (Done /\ ~outcome.ext /\ AllAttempts(Got)) =>
                /\ fetchCalls = retries + 1
                /\ Failed("server", {s})

\* C9: a non-2xx response with a status outside the retryable set, received
\* while the signal is not aborted, ends the call on that attempt with
\* 'server' and that status: no delay, no further attempt.
C9_NonRetryableShortCircuits ==
    \A i \in 1..Len(history) :
        ( /\ history[i].settle = "response"
          /\ ~Is2xx(history[i].status)
          /\ history[i].status \cap retryOnStatuses = {}
          /\ ~history[i].ext ) =>
            /\ i = Len(history)
            /\ Done
            /\ Failed("server", history[i].status)
            /\ fetchCalls = i
            /\ Len(delays) = i - 1

C11_NetworkExhaustion ==
    LET Transport(a) ==
            a.settle = "reject" /\ a.err = "TypeError" /\ ~a.timerFired /\ ~a.ext
    IN  (AllAttempts(Transport) /\ (IF Done THEN ~outcome.ext ELSE ~SignalTriggered)) =>
            /\ ~Done => (pc \in {"delay", "fetch"} /\ Len(history) < retries + 1
                         /\ lastError = ResilientFetchError("network", {}))
            /\ Done => (fetchCalls = retries + 1 /\ Failed("network", {}))

\* retries = 1 and two attempts that both ended in a TypeError
C11_Witness ==
    /\ Done
    /\ retries = 1
    /\ fetchCalls = 2
    /\ Failed("network", {})
    /\ \A i \in 1..Len(history) :
          history[i].err = "TypeError" /\ ~history[i].timerFired /\ ~history[i].ext

RECURSIVE Pow(_, _)
Pow(b, n) == IF n = 0 THEN 1 ELSE b * Pow(b, n - 1)

\* C12: the delay before attempt k (k >= 2) is d * f^(k-2), whatever kind of
\* retryable failure the earlier attempts had, and it is waited in full.
C12_BackoffGrowth ==
    /\ \A i \in 1..Len(delays) :
          delays[i] = RetryDelayTicks * Pow(BackoffMult, i - 1)
    /\ pc = "delay" =>
          /\ delayLeft \in 0..delays[Len(delays)]
          /\ Len(delays) = fetchCalls
    /\ pc = "fetch" => Len(delays) = fetchCalls - 1

\* two delays were waited, each after a failure of another kind
C12_Witness ==
    /\ Len(delays) = 2
    /\ pc = "fetch"
    /\ history[1].code # history[2].code

\* C13: when the first j attempts end in a retryable failure and attempt j+1
\* receives a 2xx response, the call returns that response after j+1
\* invocations of fetch and j delays, d, d*f, ...
C13_RetryThenSuccess ==
    (history # << >> /\ LastAttempt.settle = "response" /\ Is2xx(LastAttempt.status)) =>
        LET j == Len(history) - 1
        IN  /\ Done
            /\ outcome.kind = "response"
            /\ outcome.status = LastAttempt.status
            /\ fetchCalls = j + 1
            /\ \A i \in 1..j : history[i].act = "retry"
            /\ delays = [i \in 1..j |-> RetryDelayTicks * Pow(BackoffMult, i - 1)]

\* 503, 503, 200 with retries = 2
C13_Witness ==
    /\ Done
    /\ retries = 2
    /\ Len(history) = 3
    /\ history[1].status = {503}
    /\ history[2].status = {503}
    /\ history[3].status = {200}
    /\ outcome.kind = "response"
    /\ Len(delays) = 2

\* C14: attempts are sequential: at most one request is in flight, and fetch
\* is invoked again only when the previous attempt has settled and the delay
\* that followed it has elapsed in full.
C14_Sequential ==
    /\ [](fetchCalls - Len(history) = IF pc = "fetch" THEN 1 ELSE 0)
    /\ [][fetchCalls' # fetchCalls =>
            /\ fetchCalls' = fetchCalls + 1
            /\ Len(history) = fetchCalls
            /\ fetchCalls > 0 => (pc = "delay" /\ delayLeft = 0
                                  /\ Len(delays) = fetchCalls)]_vars

\* the second attempt is in flight
C14_Witness == pc = "fetch" /\ fetchCalls = 2 /\ Len(history) = 1

\* C15: a timeout timer is pending only while its own attempt is in flight:
\* none is pending during a delay or after the call has ended, and a timer is
\* scheduled only when none is pending.
C15_TimerScoped ==
    /\ [](timeoutPending => (pc = "fetch" /\ ~timerFired /\ timersSet = fetchCalls))
    /\ [][timersSet' # timersSet => (~timeoutPending /\ timersSet' = timersSet + 1)]_vars

\* a delay started while the timer of the failed attempt had not fired
C15_Witness ==
    /\ pc = "delay"
    /\ ~timeoutPending
    /\ ~timerFired
    /\ timersSet = 1

\* C16: no subscription to the external signal outlives its attempt: at most
\* one listener is registered at a time, and none once the call has ended.
C16_ListenersReleased ==
    /\ Cardinality(listeners) <= 1
    /\ Done => listeners = {}

\* C17: while an attempt is in flight, aborting the external signal and the
\* expiry of the attempt's timer each abort the controller whose signal was
\* passed to fetch for that attempt.
C17_AbortReachesIssuer ==
    (pc = "fetch" /\ (SignalTriggered \/ timerFired)) => controllerAborted

\* the signal was aborted in flight, the timer has not fired
C17_Witness ==
    /\ pc = "fetch"
    /\ SignalTriggered
    /\ ~timerFired
    /\ timeoutPending
    /\ controllerAborted

ErrorCodes == {"timeout", "aborted", "network", "server"}

\* C18: a call ends once, either returning a 2xx response or throwing a
\* ResilientFetchError with code timeout, aborted, network or server.
C18_TypedOutcome ==
    /\ [](Done <=> outcome # NoOutcome)
    /\ [](Done =>
            \/ outcome.kind = "response" /\ Is2xx(outcome.status)
            \/ outcome.kind = "error" /\ outcome.code \in ErrorCodes)
    /\ [][Done => (pc' = "done" /\ outcome' = outcome)]_vars

\* a non-2xx response on the last attempt ended the call with an error
C18_Witness ==
    /\ Done
    /\ outcome.kind = "error"
    /\ history # << >>
    /\ LastAttempt.settle = "response"
    /\ ~Is2xx(LastAttempt.status)

\* C19: a thrown error has a status exactly when its code is 'server', and
\* the status is that of the response the final attempt received.
C19_StatusIffServer ==
    (Done /\ outcome.kind = "error") =>
        /\ outcome.status # {} <=> outcome.code = "server"
        /\ outcome.code = "server" =>
              /\ history # << >>
              /\ LastAttempt.settle = "response"
              /\ LastAttempt.status = outcome.status

\* a timeout on the last attempt after an earlier attempt's 503
C19_Witness ==
    /\ Done
    /\ Failed("timeout", {})
    /\ Len(history) >= 2
    /\ history[1].code = "server"

\* C20: no error of the call, thrown or recorded as lastError, has code
\* 'offline'.
C20_NeverOffline ==
    /\ outcome.code # "offline"
    /\ lastError.code # "offline"
    /\ \A i \in 1..Len(history) : history[i].code # "offline"

\* a transport fault on every attempt, reported as 'network'
C20_Witness ==
    /\ Done
    /\ Failed("network", {})
    /\ LastAttempt.err = "TypeError"
    /\ lastError.code = "network"

\* C21: a non-2xx response received while the signal is not aborted is
\* followed by a retry exactly when its status is in retryOnStatuses and
\* attempts remain.
C21_RetryIffRetryableStatus ==
    \A i \in 1..Len(history) :
        ( /\ history[i].settle = "response"
          /\ ~Is2xx(history[i].status)
          /\ ~history[i].ext ) =>
            ( history[i].act = "retry" <=>
                ( /\ history[i].status \subseteq retryOnStatuses
                  /\ i < retries + 1 ) )

\* the backoff delays d, d*f, ..., d*f^(n-1) added up
RECURSIVE SumDelays(_)
SumDelays(n) ==
    IF n = 0 THEN 0 ELSE SumDelays(n - 1) + retryDelayMs * Pow(backoffFactor, n - 1)

\* (retries+1) timeouts and the delays between them
WorstCase == (retries + 1) * timeoutMs + SumDelays(retries)

C23_AtLeastOneAttempt ==
    /\ (pc # "idle" /\ ~preAborted) => fetchCalls >= 1
    /\ (Done /\ ~preAborted /\ retries = 0) =>
            /\ fetchCalls = 1
            /\ delays = << >>
            /\ Len(history) = 1

\* retries = 0: one attempt, whose failure ends the call
C23_Witness ==
    /\ Done
    /\ ~preAborted
    /\ retries = 0
    /\ outcome.kind = "error"
    /\ fetchCalls = 1

\* what an invocation has done, the clocks left out
Progress(c) ==
    << c.pc, c.attempt, c.currentDelay, c.lastError, c.outcome, c.fetchCalls,
       c.delays, c.history, c.signalAborted, c.controllerAborted,
       c.timeoutPending, c.listeners, c.retries >>

\* the delays of an invocation grow by its own backoff and its attempts stay
\* within its own budget
OwnBudget(c) ==
    /\ c.fetchCalls <= c.retries + 1
    /\ c.attempt <= c.retries + 2
    /\ \A i \in 1..Len(c.delays) :
          c.delays[i] = retryDelayMs * Pow(backoffFactor, i - 1)
    /\ ~c.hasSignal => c.outcome.code # "aborted"

\* C24: of two invocations in progress at once, a step of one (an abort of
\* its signal, a timeout, a failure, a retry) leaves the attempt count,
\* delay, last error and outcome of the other as they were; each resumes
\* with exactly the locals it was suspended with, and each keeps to its own
\* retry budget and backoff sequence.
C24_NoSharedState ==
    /\ [](OwnBudget(CallState) /\ OwnBudget(other))
    /\ [][active' = active => Progress(other)' = Progress(other)]_vars
    /\ [][active' # active => (CallState' = other /\ other' = CallState)]_vars

\* the signal of one invocation was aborted in flight while the other was
\* waiting out its backoff delay, and the other went on to its second attempt
C24_Witness ==
    /\ pc = "fetch"
    /\ attempt = 2
    /\ ~hasSignal
    /\ other.pc = "done"
    /\ other.outcome.code = "aborted"
    /\ other.fetchCalls = 1
    /\ other.elapsed > 0
    /\ elapsed > other.elapsed

\* C25: when Cancel is tapped while an analysis request is in flight, the
\* signal passed to that request is aborted.
C25_CancelAbortsRequest ==
    \A t \in 1..Len(tasks) : tasks[t].cancelled => tasks[t].aborted

\* C26: whenever the Result screen shows its loading state an analysis is
\* in progress.
C26_LoadingHasRequest ==
    (Top = "Result" /\ Loading) =>
        \E t \in 1..Len(tasks) : tasks[t].phase # "done"

\* C27: the call writes no log output.
C27_NoLogging == logCount = 0

\* C28 as claimed: a rejection that is not a TypeError, with neither the
\* signal nor the controller aborted, is recorded as 'network' and retried
\* while attempts remain.
C28_UnknownRetried ==
    \A i \in 1..Len(history) :
        ( /\ history[i].settle = "reject"
          /\ history[i].err = "Other"
          /\ ~history[i].timerFired
          /\ ~history[i].ext ) =>
            /\ history[i].code = "network"
            /\ i < retries + 1 => history[i].act = "retry"

\* C28 as amended: such a rejection ends the call on that attempt with
\* 'network': no delay, no further attempt, whatever attempts remain.
C28_UnknownThrown ==
    \A i \in 1..Len(history) :
        ( /\ history[i].settle = "reject"
          /\ history[i].err = "Other"
          /\ ~history[i].timerFired
          /\ ~history[i].ext ) =>
            /\ i = Len(history)
            /\ Done
            /\ Failed("network", {})
            /\ fetchCalls = i
            /\ Len(delays) = i - 1

\* the first attempt of a call with retries left is rejected that way
C28_Witness ==
    /\ Done
    /\ retries >= 1
    /\ Len(history) = 1
    /\ history[1].err = "Other"
    /\ ~history[1].timerFired
    /\ ~history[1].ext
    /\ Failed("network", {})

\* C29: a non-2xx response classified after the signal was aborted ends the
\* call there with 'aborted': no backoff delay is started and no further
\* attempt is made, the status being retryable or not.
C29_AbortBeforeServerStatus ==
    \A i \in 1..Len(history) :
        ( /\ history[i].settle = "response"
          /\ ~Is2xx(history[i].status)
          /\ history[i].ext ) =>
            /\ i = Len(history)
            /\ Done
            /\ Failed("aborted", {})
            /\ fetchCalls = i
            /\ Len(delays) = i - 1

\* C30: every invocation of fetch starts with a controller that is not
\* aborted and a timer of the full timeoutMs, and an attempt is classified
\* 'timeout' only when its own timer fired.
C30_FreshScope ==
    /\ [](\A i \in 1..Len(history) :
             history[i].code = "timeout" => history[i].timerFired)
    /\ [][fetchCalls' # fetchCalls =>
             /\ ~controllerAborted'
             /\ ~timerFired'
             /\ timeoutPending'
             /\ timeoutLeft' = timeoutMs]_vars

\* attempt 2 in flight after attempt 1 timed out
C30_Witness ==
    /\ pc = "fetch"
    /\ fetchCalls = 2
    /\ history[1].timerFired
    /\ history[1].code = "timeout"
    /\ ~controllerAborted
    /\ ~timerFired
    /\ timeoutLeft = timeoutMs

\* what an attempt amounts to, from how it ended: the signal's abort first,
\* then the attempt's own timer, then what the issuer did
Classify(a) ==
    IF a.ext THEN "aborted"
    ELSE IF a.timerFired THEN "timeout"
    ELSE IF a.settle = "response" THEN "server"
    ELSE "network"

\* C31: when the last of the retries+1 attempts fails, the error thrown has
\* the code of that attempt alone, with its status when the code is
\* 'server' and none otherwise, whatever the earlier attempts ended in.
C31_FinalAttemptDecides ==
    (Done /\ outcome.kind = "error" /\ Len(history) = retries + 1) =>
        /\ outcome.code = Classify(LastAttempt)
        /\ outcome.status =
              IF Classify(LastAttempt) = "server" THEN LastAttempt.status ELSE {}

\* timeout, timeout, then a 503 before the timer of the last attempt
C31_Witness ==
    /\ Done
    /\ retries = 2
    /\ Len(history) = 3
    /\ history[1].code = "timeout"
    /\ history[2].code = "timeout"
    /\ LastAttempt.status = {503}
    /\ ~LastAttempt.timerFired
    /\ Failed("server", {503})

\* C32: no error of the call has code 'aborted' unless abortSignal was
\* supplied and has been aborted.
C32_AbortedOnlyBySignal ==
    /\ outcome.code = "aborted" => SignalTriggered
    /\ lastError.code # "aborted"
    /\ \A i \in 1..Len(history) :
          history[i].code = "aborted" => (SignalTriggered /\ history[i].ext)

\* an attempt timed out, and the signal was aborted during a later one
C32_Witness ==
    /\ Done
    /\ Failed("aborted", {})
    /\ ~preAborted
    /\ Len(history) = 2
    /\ history[1].code = "timeout"
    /\ history[2].code = "aborted"

\* C33: an attempt is classified 'timeout' only when its own timer fired
\* before fetch settled and the signal was not aborted.
C33_TimeoutOnlyByOwnTimer ==
    \A i \in 1..Len(history) :
        history[i].code = "timeout" =>
            (history[i].timerFired /\ ~history[i].ext)

\* a 503 before the timer is 'server'; the next attempt runs into its timer
C33_Witness ==
    /\ Len(history) = 2
    /\ history[1].settle = "response"
    /\ ~history[1].timerFired
    /\ history[1].code = "server"
    /\ history[2].timerFired
    /\ history[2].code = "timeout"

\* C34: the timer's expiry leaves the attempt waiting on fetch; the attempt
\* ends, in a retry or in the call's outcome, only in a step in which fetch
\* settles.
C34_AttemptEndsWithIssuer ==
    /\ [][(timerFired' /\ ~timerFired) =>
             /\ pc = "fetch"
             /\ UNCHANGED << pc, attempt, fetchCalls, outcome, history,
                             delays, lastError >>]_vars
    /\ [][(pc = "fetch" /\ pc' # "fetch") =>
             /\ Len(history') = Len(history) + 1
             /\ history'[Len(history')].settle \in {"response", "reject"}]_vars

\* the timer has fired, time has passed, and the attempt still waits
C34_Witness ==
    /\ pc = "fetch"
    /\ timerFired
    /\ issuerLate
    /\ Len(history) = fetchCalls - 1

\* the message the user gets for each code of a failed call
UserMessage(code) ==
    CASE code = "aborted" -> "Analysis cancelled"
      [] code = "timeout" ->
            "The analysis is taking too long. Please check your connection and try again."
      [] code = "network" ->
            "Network error. Please check your internet connection and try again."
      [] code = "server" -> "Server error. Please try again later."

\* C35: whatever resilientFetch returned or threw, and whatever the body of
\* a response is, analyzeFood resolves; when the call failed the result has
\* success false, no items and no calories, its error text is the message
\* of the failure's code, and it is 'Analysis cancelled' exactly when the
\* code is 'aborted'.
C35_AnalyzeNeverRejects ==
    Done =>
        \A key \in BOOLEAN, body \in Bodies :
            LET r == AnalyzeFood(key, outcome, body)
            IN  /\ r.promise = "fulfilled"
                /\ r.success \in BOOLEAN
                /\ (outcome.kind = "error" \/ ~key) =>
                      /\ ~r.success
                      /\ r.items = {}
                      /\ r.totalCalories = 0
                /\ (outcome.kind = "error" /\ key) =>
                      /\ r.error = UserMessage(outcome.code)
                      /\ r.error = "Analysis cancelled" <=> outcome.code = "aborted"
                /\ outcome.kind = "response" => r.error # "Analysis cancelled"

\* a call that ended in 'aborted' after an attempt that timed out
C35_Witness ==
    /\ Done
    /\ Failed("aborted", {})
    /\ history # << >>
    /\ history[1].code = "timeout"
    /\ AnalyzeFood(TRUE, outcome, "result").error = "Analysis cancelled"
    /\ ~AnalyzeFood(TRUE, outcome, "result").success

\* C36: an analysis that was in progress when Cancel was tapped, or whose
\* screen has been unmounted, sets currentResult no more, from its request
\* or from its connectivity check.
C36_CancelledOutcomeDiscarded ==
    \A t \in 1..Len(tasks) : ~tasks[t].wroteAfter

\* C37: an analysis whose connectivity check reports no connection or no
\* reachable internet ends there with the offline error and never calls
\* analyzeFood; one whose check fails, or reports a connection, goes on to
\* the request.
C37_OfflineSkipsRequest ==
    \A t \in 1..Len(tasks) :
        /\ tasks[t].net \in {"offline", "unreachable"} =>
              /\ tasks[t].phase = "done"
              /\ ~tasks[t].requested
              /\ tasks[t].offlineError
        /\ tasks[t].net \in {"online", "failed"} =>
              /\ tasks[t].requested
              /\ ~tasks[t].offlineError
        /\ tasks[t].requested => tasks[t].net \in {"online", "failed"}
        /\ tasks[t].phase = "request" => tasks[t].requested

\* an image analysis ended offline, and after Retry the check failed and the
\* request was made
C37_Witness ==
    /\ Len(tasks) = 2
    /\ tasks[1].flow = "image"
    /\ tasks[1].net = "offline"
    /\ tasks[1].phase = "done"
    /\ tasks[2].net = "failed"
    /\ tasks[2].phase = "request"

\* C38: at most one analysis request that has not been aborted is in flight
\* at any time.
C38_OneRequestInFlight ==
    \A t, u \in 1..Len(tasks) :
        ( /\ tasks[t].phase = "request"
          /\ tasks[u].phase = "request"
          /\ ~tasks[t].aborted
          /\ ~tasks[u].aborted ) => t = u

====
